---- MODULE Spec2Model ----
(***************************************************************************)
(* A model of the bf-vm core: the paginated data tape (data_tape.rs), the  *)
(* peripheral tape (peripheral_tape.rs) and the virtual machine            *)
(* (virtual_machine.rs).  Positions in programs and jump maps are 0-based  *)
(* as in the source; TLA+ sequences are 1-based, so prog[i + 1] is the     *)
(* source's prog[i].                                                       *)
(***************************************************************************)
EXTENDS Integers, Sequences, FiniteSets, TLC

VARIABLES
    code,             \* the source text handed to BFVM::new_with_workspaces
    sanitize,         \* the sanitize flag handed to BFVM::new_with_workspaces
    built,            \* result of the construction: Ok or Err(UnmachedLoopParentheses)
    prog,             \* BFVM.prog
    jump_map,         \* BFVM.jump_map
    pointer,          \* BFVM.pointer (the instruction pointer)
    buffer,           \* BFVM.buffer
    data_tape,        \* BFVM.data_tape / a DataTape under test
    peripheral_tape,  \* the PeripheralTape (device count and native hook addresses)
    call,             \* the call in progress: next, run or run_for and its locals
    result,           \* what the last finished call returned
    steps,            \* history: number of next() calls that returned Ok(true)
    io,               \* history: the peripheral invocations of the last call of next
    last,             \* history: the last DataTape / PeripheralTape operation and its result
    written,          \* history: the last value stored by set_value per (page, pointer)
    ring,             \* history: the current streak of next_workspace / prev_workspace calls
    panicked          \* TRUE once the process has panicked (arithmetic overflow, expect)

vars == <<code, sanitize, built, prog, jump_map, pointer, buffer, data_tape,
          peripheral_tape, call, result, steps, io, last, written, ring, panicked>>

-----------------------------------------------------------------------------
(* Bounds of the model. *)

\* longest source text of the exhaustive enumeration
MaxSrcLen == 2
\* largest n of the programs "+"^n "[-]"
MaxPlus == 3
\* longest run of unrecognized characters in the filler programs
MaxRun == 5
\* cap on the number of successful steps of one VM
MaxSteps == 12
\* largest finite cycles argument of run_for
MaxCycles == 2
\* largest number of workspaces
MaxWorkspaces == 2
\* largest number of devices of a peripheral tape under test
MaxDevices == 3
\* cap on the number of operations applied to a DataTape under test
MaxOps == 5

-----------------------------------------------------------------------------
(* Machine integers. *)

U16Max == 65535
U16Mod == 65536
\* the number of bits of a cell
WordBits == 16

\* A u32 is kept as its two 16-bit halves (TLC's integers are 32-bit signed)
U32(n) == [hi |-> n \div U16Mod, lo |-> n % U16Mod]
U32Max == [hi |-> U16Max, lo |-> U16Max]
U32IsZero(x) == x.hi = 0 /\ x.lo = 0

\* an addition that stops at the largest value
saturating_add(x, y) == IF x + y > U16Max THEN U16Max ELSE x + y

wrapping_add(x, y) == (x + y) % U16Mod
wrapping_sub(x, y) == (x - y + U16Mod) % U16Mod

\* Finite maps (HashMap) as functions
EmptyMap == [x \in {} |-> 0]
Insert(m, k, v) == [x \in DOMAIN m \cup {k} |-> IF x = k THEN v ELSE m[x]]
Extend(m, other) ==
    [x \in DOMAIN m \cup DOMAIN other |-> IF x \in DOMAIN other THEN other[x] ELSE m[x]]

\* Option<usize>
None == <<>>
Some(x) == <<x>>

\* Result<T, VMErrKind>
Ok(v) == [ok |-> TRUE, val |-> v, err |-> <<>>]
Err(e) == [ok |-> FALSE, val |-> 0, err |-> e]

InvalidPage(p, m) == <<"InvalidPage", p, m>>
PeripheralIOErr(v, a) == <<"PeripheralIOErr", v, a>>
OverlappingPeripheralAddresses(n, least) == <<"OverlappingPeripheralAddresses", n, least>>
InvalidPeripheralTapeAccess(a) == <<"InvalidPeripheralTapeAccess", a>>
UnmachedLoopParentheses(i) == <<"UnmachedLoopParentheses", i>>

-----------------------------------------------------------------------------
(* virtual_machine.rs: opcodes and program construction *)

BF_CHARS == {">", "<", "+", "-", "[", "]", ".", ",", "@", "^", "*", "~", "&", "#", "}", "{"}

BF_PTR_INC == 0
BF_PTR_DEC == 1
BF_DATA_INC == 2
BF_DATA_DEC == 3
BF_LOOP_OPEN == 4
BF_LOOP_CLOSE == 5
BF_OUTPUT == 6
BF_INPUT == 7
BF_PTR_JUMP == 8
BF_TO_BUF == 9
BF_FROM_BUF == 10
BF_ROTATE == 11
BF_NAND == 12
BF_PAGE_JUMP == 13
BF_PAGE_INC == 14
BF_PAGE_DEC == 15
FIL_CHAR == 16
FIL_JUMP == 17

is_bf_char(c) == c \in BF_CHARS

char_bf_code(c) ==
    CASE c = ">" -> BF_PTR_INC
      [] c = "<" -> BF_PTR_DEC
      [] c = "+" -> BF_DATA_INC
      [] c = "-" -> BF_DATA_DEC
      [] c = "[" -> BF_LOOP_OPEN
      [] c = "]" -> BF_LOOP_CLOSE
      [] c = "." -> BF_OUTPUT
      [] c = "," -> BF_INPUT
      [] c = "@" -> BF_PTR_JUMP
      [] c = "^" -> BF_TO_BUF
      [] c = "*" -> BF_FROM_BUF
      [] c = "~" -> BF_ROTATE
      [] c = "&" -> BF_NAND
      [] c = "#" -> BF_PAGE_JUMP
      [] c = "}" -> BF_PAGE_INC
      [] c = "{" -> BF_PAGE_DEC
      [] OTHER -> FIL_CHAR

\* the characters of src from position i on that are instruction characters, in order
RECURSIVE Filter(_, _)
Filter(src, i) ==
    IF i > Len(src) THEN <<>>
    ELSE IF is_bf_char(src[i]) THEN <<src[i]>> \o Filter(src, i + 1)
    ELSE Filter(src, i + 1)

sanitize_bf_str(src) ==
    LET sanitized == Filter(src, 1)
    IN  [k \in 1..Len(sanitized) |-> char_bf_code(sanitized[k])]

convert_bf_str(src) == [k \in 1..Len(src) |-> char_bf_code(src[k])]

\* the scan of add_char_jumps: i is the 0-based index, st the loop's locals
RECURSIVE add_char_jumps_scan(_, _, _)
add_char_jumps_scan(p, i, st) ==
    IF i >= Len(p) THEN st
    ELSE LET cd == p[i + 1] IN
         IF cd = FIL_CHAR /\ st.start = None
         THEN add_char_jumps_scan(p, i + 1, [st EXCEPT !.start = Some(i)])
         ELSE IF st.start # None /\ cd # FIL_CHAR
         THEN add_char_jumps_scan(p, i + 1,
                  [st EXCEPT !.put_starts = Append(@, st.start[1]),
                             !.jump_map = Insert(@, st.start[1], i)])
         ELSE add_char_jumps_scan(p, i + 1, st)

\* add_char_jumps whose last insert targets one past prog.len()
add_char_jumps_past_end(p) ==
    LET st == add_char_jumps_scan(p, 0,
                  [start |-> None, jump_map |-> EmptyMap, put_starts |-> <<>>])
    IN  IF st.start # None
        THEN [prog |-> [p EXCEPT ![st.start[1] + 1] = FIL_JUMP],
              jump_map |-> Insert(st.jump_map, st.start[1], Len(p) + 1)]
        ELSE [prog |-> p, jump_map |-> st.jump_map]

\* add_char_jumps without the insert after the loop: the run is marked but gets
\* no entry of its own
add_char_jumps_unmapped(p) ==
    LET st == add_char_jumps_scan(p, 0,
                  [start |-> None, jump_map |-> EmptyMap, put_starts |-> <<>>])
    IN  IF st.start # None
        THEN [prog |-> [p EXCEPT ![st.start[1] + 1] = FIL_JUMP],
              jump_map |-> EmptyMap]
        ELSE [prog |-> p, jump_map |-> st.jump_map]

\* add_char_jumps(&mut prog) -> jump_map; returns the rewritten prog with the map
add_char_jumps(p) ==
    LET st == add_char_jumps_scan(p, 0,
                  [start |-> None, jump_map |-> EmptyMap, put_starts |-> <<>>])
        starts == {st.put_starts[k] : k \in 1..Len(st.put_starts)}
        p1 == [k \in 1..Len(p) |-> IF (k - 1) \in starts THEN FIL_CHAR ELSE p[k]]
    IN  IF st.start # None
        THEN [prog |-> [p1 EXCEPT ![st.start[1] + 1] = FIL_JUMP],
              jump_map |-> Insert(st.jump_map, st.start[1], Len(p))]
        ELSE [prog |-> p1, jump_map |-> st.jump_map]

\* the scan of create_jump_map: jm the map so far, bs the back_stack
RECURSIVE create_jump_map_scan(_, _, _, _)
create_jump_map_scan(p, i, jm, bs) ==
    IF i >= Len(p)
    THEN IF bs # <<>> THEN Err(UnmachedLoopParentheses(bs[Len(bs)])) ELSE Ok(jm)
    ELSE IF p[i + 1] = BF_LOOP_OPEN
    THEN create_jump_map_scan(p, i + 1, jm, Append(bs, i))
    ELSE IF p[i + 1] = BF_LOOP_CLOSE
    THEN IF bs # <<>>
         THEN LET ind == bs[Len(bs)] IN
              create_jump_map_scan(p, i + 1, Insert(Insert(jm, i, ind + 1), ind, i + 1),
                                   SubSeq(bs, 1, Len(bs) - 1))
         ELSE Err(UnmachedLoopParentheses(i))
    ELSE create_jump_map_scan(p, i + 1, jm, bs)

\* create_jump_map without the check of the leftover back_stack after the scan
RECURSIVE create_jump_map_nocheck_scan(_, _, _, _)
create_jump_map_nocheck_scan(p, i, jm, bs) ==
    IF i >= Len(p)
    THEN Ok(jm)
    ELSE IF p[i + 1] = BF_LOOP_OPEN
    THEN create_jump_map_nocheck_scan(p, i + 1, jm, Append(bs, i))
    ELSE IF p[i + 1] = BF_LOOP_CLOSE
    THEN IF bs # <<>>
         THEN LET ind == bs[Len(bs)] IN
              create_jump_map_nocheck_scan(p, i + 1,
                                           Insert(Insert(jm, i, ind + 1), ind, i + 1),
                                           SubSeq(bs, 1, Len(bs) - 1))
         ELSE Err(UnmachedLoopParentheses(i))
    ELSE create_jump_map_nocheck_scan(p, i + 1, jm, bs)

create_jump_map_nocheck(p) == create_jump_map_nocheck_scan(p, 0, EmptyMap, <<>>)

\* create_jump_map that takes the oldest open bracket (a queue) instead of the
\* newest (a stack)
RECURSIVE create_jump_map_fifo_scan(_, _, _, _)
create_jump_map_fifo_scan(p, i, jm, bs) ==
    IF i >= Len(p)
    THEN IF bs # <<>> THEN Err(UnmachedLoopParentheses(bs[Len(bs)])) ELSE Ok(jm)
    ELSE IF p[i + 1] = BF_LOOP_OPEN
    THEN create_jump_map_fifo_scan(p, i + 1, jm, Append(bs, i))
    ELSE IF p[i + 1] = BF_LOOP_CLOSE
    THEN IF bs # <<>>
         THEN LET ind == bs[1] IN
              create_jump_map_fifo_scan(p, i + 1,
                                        Insert(Insert(jm, i, ind + 1), ind, i + 1),
                                        SubSeq(bs, 2, Len(bs)))
         ELSE Err(UnmachedLoopParentheses(i))
    ELSE create_jump_map_fifo_scan(p, i + 1, jm, bs)

create_jump_map_fifo(p) == create_jump_map_fifo_scan(p, 0, EmptyMap, <<>>)

create_jump_map(p) == create_jump_map_scan(p, 0, EmptyMap, <<>>)

-----------------------------------------------------------------------------
(* data_tape.rs *)

\* A [u16; 0x10000] array is kept as the map of its nonzero cells.
ZeroArray == EmptyMap
ArrayGet(arr, i) == IF i \in DOMAIN arr THEN arr[i] ELSE 0
ArraySet(arr, i, v) ==
    IF v = 0 THEN [x \in DOMAIN arr \ {i} |-> arr[x]] ELSE Insert(arr, i, v)

new_with_workspaces(max_pages, num_workspaces) ==
    [tapes |-> EmptyMap,
     pointer |-> 0,
     page |-> 0,
     max_pages |-> max_pages,
     num_workspaces |-> num_workspaces,
     workspaces |-> [k \in 1..num_workspaces |-> ZeroArray],
     workspace_pointer |-> 0]

set_pointer(t, address) == [t EXCEPT !.pointer = address]
get_pointer(t) == t.pointer
set_page(t, address) == [t EXCEPT !.page = address]
get_page(t) == t.page

\* set_value whose write to a page already present replaces the page by a fresh
\* array holding only the new value
set_value_fresh(t, value) ==
    IF t.page >= t.max_pages
    THEN [tape |-> t, res |-> Err(InvalidPage(t.page, t.max_pages)), panic |-> FALSE]
    ELSE IF t.workspace_pointer > 0
    THEN [tape |-> [t EXCEPT !.workspaces[t.workspace_pointer] =
                                 ArraySet(@, t.pointer, value)],
          res |-> Ok(0), panic |-> FALSE]
    ELSE [tape |-> [t EXCEPT !.tapes = Insert(@, t.page, ArraySet(ZeroArray, t.pointer, value))],
          res |-> Ok(0), panic |-> FALSE]

\* set_value that takes the workspace index as the position in the vector
\* (self.workspaces[self.workspace_pointer])
set_value_unshifted(t, value) ==
    IF t.page >= t.max_pages
    THEN [tape |-> t, res |-> Err(InvalidPage(t.page, t.max_pages)), panic |-> FALSE]
    ELSE IF t.workspace_pointer > 0
    THEN IF t.workspace_pointer + 1 > Len(t.workspaces)
         THEN [tape |-> t, res |-> Ok(0), panic |-> TRUE]
         ELSE [tape |-> [t EXCEPT !.workspaces[t.workspace_pointer + 1] =
                                      ArraySet(@, t.pointer, value)],
               res |-> Ok(0), panic |-> FALSE]
    ELSE IF t.page \in DOMAIN t.tapes
    THEN [tape |-> [t EXCEPT !.tapes[t.page] = ArraySet(@, t.pointer, value)],
          res |-> Ok(0), panic |-> FALSE]
    ELSE [tape |-> [t EXCEPT !.tapes = Insert(@, t.page, ArraySet(ZeroArray, t.pointer, value))],
          res |-> Ok(0), panic |-> FALSE]

\* set_value(&mut self, value) -> Result<(), VMErrKind>, with the tape it leaves;
\* panic is the index-out-of-bounds panic of self.workspaces[..]
set_value(t, value) ==
    IF t.page >= t.max_pages
    THEN [tape |-> t, res |-> Err(InvalidPage(t.page, t.max_pages)), panic |-> FALSE]
    ELSE IF t.workspace_pointer > 0
    THEN IF t.workspace_pointer > Len(t.workspaces)
         THEN [tape |-> t, res |-> Ok(0), panic |-> TRUE]
         ELSE [tape |-> [t EXCEPT !.workspaces[t.workspace_pointer] =
                                      ArraySet(@, t.pointer, value)],
               res |-> Ok(0), panic |-> FALSE]
    ELSE IF t.page \in DOMAIN t.tapes
    THEN [tape |-> [t EXCEPT !.tapes[t.page] = ArraySet(@, t.pointer, value)],
          res |-> Ok(0), panic |-> FALSE]
    ELSE [tape |-> [t EXCEPT !.tapes = Insert(@, t.page, ArraySet(ZeroArray, t.pointer, value))],
          res |-> Ok(0), panic |-> FALSE]

\* get_value whose page check is  page > max_pages
get_value_gt(t) ==
    IF t.page > t.max_pages
    THEN [tape |-> t, res |-> Err(InvalidPage(t.page, t.max_pages)), panic |-> FALSE]
    ELSE IF t.workspace_pointer > 0
    THEN [tape |-> t,
          res |-> Ok(ArrayGet(t.workspaces[t.workspace_pointer], t.pointer)),
          panic |-> FALSE]
    ELSE IF t.page \in DOMAIN t.tapes
    THEN [tape |-> t, res |-> Ok(ArrayGet(t.tapes[t.page], t.pointer)), panic |-> FALSE]
    ELSE [tape |-> [t EXCEPT !.tapes = Insert(@, t.page, ZeroArray)],
          res |-> Ok(0), panic |-> FALSE]

\* get_value(&mut self) -> Result<u16, VMErrKind>, with the tape it leaves
get_value(t) ==
    IF t.page >= t.max_pages
    THEN [tape |-> t, res |-> Err(InvalidPage(t.page, t.max_pages)), panic |-> FALSE]
    ELSE IF t.workspace_pointer > 0
    THEN IF t.workspace_pointer > Len(t.workspaces)
         THEN [tape |-> t, res |-> Ok(0), panic |-> TRUE]
         ELSE [tape |-> t,
               res |-> Ok(ArrayGet(t.workspaces[t.workspace_pointer], t.pointer)),
               panic |-> FALSE]
    ELSE IF t.page \in DOMAIN t.tapes
    THEN [tape |-> t, res |-> Ok(ArrayGet(t.tapes[t.page], t.pointer)), panic |-> FALSE]
    ELSE [tape |-> [t EXCEPT !.tapes = Insert(@, t.page, ZeroArray)],
          res |-> Ok(0), panic |-> FALSE]

get_max_pages(t) == t.max_pages

\* self.page += 1 on a u16: past 65535 the checked build panics with "attempt to
\* add with overflow" and the unchecked build wraps; both outcomes are kept.
next_workspace(t) ==
    IF t.workspace_pointer = t.num_workspaces
    THEN IF t.page = U16Max
         THEN {[tape |-> t, panic |-> TRUE],
               [tape |-> [t EXCEPT !.page = 0, !.workspace_pointer = 0], panic |-> FALSE]}
         ELSE {[tape |-> [t EXCEPT !.page = t.page + 1, !.workspace_pointer = 0],
                panic |-> FALSE]}
    ELSE {[tape |-> [t EXCEPT !.workspace_pointer = t.workspace_pointer + 1],
           panic |-> FALSE]}

\* self.page -= 1 on a u16: below 0 the checked build panics and the unchecked
\* build wraps; both outcomes are kept.
prev_workspace(t) ==
    IF t.workspace_pointer = 0
    THEN IF t.page = 0
         THEN {[tape |-> t, panic |-> TRUE],
               [tape |-> [t EXCEPT !.page = U16Max,
                                   !.workspace_pointer = t.num_workspaces],
                panic |-> FALSE]}
         ELSE {[tape |-> [t EXCEPT !.page = t.page - 1,
                                   !.workspace_pointer = t.num_workspaces],
                panic |-> FALSE]}
    ELSE {[tape |-> [t EXCEPT !.workspace_pointer = t.workspace_pointer - 1],
           panic |-> FALSE]}

-----------------------------------------------------------------------------
(* peripheral_tape.rs *)

SetMin(S) == CHOOSE x \in S : \A y \in S : x <= y

\* PeripheralTape::new whose overlap check is  peripherals.len() >= least
PeripheralTape_new_ge(peripherals, native_write, native_read) ==
    LET least == SetMin(native_write \cup native_read \cup {65536})
    IN  IF peripherals >= least
        THEN Err(OverlappingPeripheralAddresses(peripherals, least))
        ELSE Ok([peripherals |-> peripherals,
                 native_write |-> native_write,
                 native_read |-> native_read])

\* PeripheralTape::new; peripherals is the length of the device vector,
\* native_write and native_read the key sets of the two maps
PeripheralTape_new(peripherals, native_write, native_read) ==
    LET least == SetMin(native_write \cup native_read \cup {65536})
    IN  IF peripherals > least
        THEN Err(OverlappingPeripheralAddresses(peripherals, least))
        ELSE Ok([peripherals |-> peripherals,
                 native_write |-> native_write,
                 native_read |-> native_read])

\* what a native hook or a device may return: hooks and devices are opaque to
\* the core, so their result is an input of the operation
WriteReturns(value, address) == {Ok(0), Err(PeripheralIOErr(value, address))}
ReadValues == {0, 1, 43690, 65535}
ReadReturns(address) == {Ok(v) : v \in ReadValues} \cup {Err(PeripheralIOErr(0, address))}

\* PeripheralTape::write that looks up the device before the native hook and
\* accepts the index one past the last device
write_device_first(pt, value, address, r) ==
    IF address <= pt.peripherals
    THEN [res |-> r,
          invoked |-> <<[target |-> "device_write", at |-> address, value |-> value, ret |-> r]>>]
    ELSE IF address \in pt.native_write
    THEN [res |-> r,
          invoked |-> <<[target |-> "native_write", at |-> address, value |-> value, ret |-> r]>>]
    ELSE [res |-> Err(InvalidPeripheralTapeAccess(address)), invoked |-> <<>>]

\* PeripheralTape::write; r is what the invoked hook or device returns.
\* invoked lists the targets the call invoked.
write(pt, value, address, r) ==
    IF address \in pt.native_write
    THEN [res |-> r,
          invoked |-> <<[target |-> "native_write", at |-> address, value |-> value, ret |-> r]>>]
    ELSE IF address < pt.peripherals
    THEN [res |-> r,
          invoked |-> <<[target |-> "device_write", at |-> address, value |-> value, ret |-> r]>>]
    ELSE [res |-> Err(InvalidPeripheralTapeAccess(address)), invoked |-> <<>>]

\* PeripheralTape::read; r is what the invoked hook or device returns
read(pt, address, r) ==
    IF address \in pt.native_read
    THEN [res |-> r,
          invoked |-> <<[target |-> "native_read", at |-> address, value |-> 0, ret |-> r]>>]
    ELSE IF address < pt.peripherals
    THEN [res |-> r,
          invoked |-> <<[target |-> "device_read", at |-> address, value |-> 0, ret |-> r]>>]
    ELSE [res |-> Err(InvalidPeripheralTapeAccess(address)), invoked |-> <<>>]

-----------------------------------------------------------------------------
(* virtual_machine.rs: BFVM *)

\* BFVM::new_with_workspaces, without the peripheral tape reference
BFVM_new_with_workspaces(src, max_pages, san, num_workspaces) ==
    LET raw == add_char_jumps(convert_bf_str(src))
        p == IF san THEN sanitize_bf_str(src) ELSE raw.prog
        jm0 == IF san THEN EmptyMap ELSE raw.jump_map
        loops == create_jump_map(p)
    IN  IF ~loops.ok
        THEN Err(loops.err)
        ELSE Ok([prog |-> p,
                 jump_map |-> Extend(jm0, loops.val),
                 data_tape |-> new_with_workspaces(max_pages, num_workspaces),
                 pointer |-> 0,
                 buffer |-> 0])

RECURSIVE BitAnd(_, _)
BitAnd(a, b) ==
    IF a = 0 \/ b = 0 THEN 0
    ELSE (IF a % 2 = 1 /\ b % 2 = 1 THEN 1 ELSE 0) + 2 * BitAnd(a \div 2, b \div 2)

\* the shift without the carried bit: val >> 1
rotate_shift_only(val) == val \div 2

\* (val >> 1) | or
rotate(val) == (val \div 2) + (IF val % 2 = 1 THEN 32768 ELSE 0)
\* !(val & self.buffer)
nand(val, buf) == U16Max - BitAnd(val, buf)

\* outcomes of one arm of the match in next
Advance(vm, t) ==
    [vm |-> [vm EXCEPT !.data_tape = t, !.pointer = vm.pointer + 1],
     res |-> Ok(TRUE), panic |-> FALSE, io |-> <<>>]
\* a jump that lands on the matching bracket's own index instead of one past it
JumpTo_own_index(vm, t, target) ==
    [vm |-> [vm EXCEPT !.data_tape = t, !.pointer = target - 1],
     res |-> Ok(TRUE), panic |-> FALSE, io |-> <<>>]
JumpTo(vm, t, target) ==
    [vm |-> [vm EXCEPT !.data_tape = t, !.pointer = target],
     res |-> Ok(TRUE), panic |-> FALSE, io |-> <<>>]
\* a failure that has already moved to the next instruction
Fail_advanced(vm, t, e, invoked) ==
    [vm |-> [vm EXCEPT !.data_tape = t, !.pointer = vm.pointer + 1],
     res |-> Err(e), panic |-> FALSE, io |-> invoked]
Fail(vm, t, e, invoked) ==
    [vm |-> [vm EXCEPT !.data_tape = t], res |-> Err(e), panic |-> FALSE, io |-> invoked]
Panic(vm, t) ==
    [vm |-> [vm EXCEPT !.data_tape = t], res |-> Ok(FALSE), panic |-> TRUE, io |-> <<>>]

\* the value the opcodes that rewrite the current cell store, from its value val
NewValue(c, val, buf) ==
    CASE c = BF_DATA_INC -> wrapping_add(val, 1)
      [] c = BF_DATA_DEC -> wrapping_sub(val, 1)
      [] c = BF_ROTATE -> rotate(val)
      [] c = BF_NAND -> nand(val, buf)

\* let val = get_value()?; set_value(new value)?; self.pointer + 1
GetThenSet(vm, c) ==
    LET g == get_value(vm.data_tape) IN
    IF g.panic THEN Panic(vm, g.tape)
    ELSE IF ~g.res.ok THEN Fail(vm, g.tape, g.res.err, <<>>)
    ELSE LET s == set_value(g.tape, NewValue(c, g.res.val, vm.buffer)) IN
         IF s.panic THEN Panic(vm, s.tape)
         ELSE IF ~s.res.ok THEN Fail(vm, s.tape, s.res.err, <<>>)
         ELSE Advance(vm, s.tape)

\* self.jump_map.get(&self.pointer).expect(..)
Jump(vm, t) ==
    IF vm.pointer \in DOMAIN vm.jump_map
    THEN JumpTo(vm, t, vm.jump_map[vm.pointer])
    ELSE Panic(vm, t)

\* BFVM::next: the set of its outcomes on vm with peripheral tape pt
next(vm, pt) ==
    IF vm.pointer >= Len(vm.prog)
    THEN {[vm |-> vm, res |-> Ok(FALSE), panic |-> FALSE, io |-> <<>>]}
    ELSE
    LET c == vm.prog[vm.pointer + 1]
        dt == vm.data_tape
        g == get_value(dt)
    IN
    CASE c = BF_PTR_INC -> {Advance(vm, set_pointer(dt, wrapping_add(get_pointer(dt), 1)))}
      [] c = BF_PTR_DEC -> {Advance(vm, set_pointer(dt, wrapping_sub(get_pointer(dt), 1)))}
      [] c = BF_DATA_INC -> {GetThenSet(vm, c)}
      [] c = BF_DATA_DEC -> {GetThenSet(vm, c)}
      [] c = BF_LOOP_OPEN ->
            {IF g.panic THEN Panic(vm, g.tape)
             ELSE IF ~g.res.ok THEN Fail(vm, g.tape, g.res.err, <<>>)
             ELSE IF g.res.val = 0 THEN Jump(vm, g.tape)
             ELSE Advance(vm, g.tape)}
      [] c = BF_LOOP_CLOSE ->
            {IF g.panic THEN Panic(vm, g.tape)
             ELSE IF ~g.res.ok THEN Fail(vm, g.tape, g.res.err, <<>>)
             ELSE IF g.res.val # 0 THEN Jump(vm, g.tape)
             ELSE Advance(vm, g.tape)}
      [] c = BF_OUTPUT ->
            IF g.panic THEN {Panic(vm, g.tape)}
            ELSE IF ~g.res.ok THEN {Fail(vm, g.tape, g.res.err, <<>>)}
            ELSE {LET w == write(pt, g.res.val, vm.buffer, r) IN
                  IF ~w.res.ok THEN Fail(vm, g.tape, w.res.err, w.invoked)
                  ELSE [Advance(vm, g.tape) EXCEPT !.io = w.invoked]
                  : r \in WriteReturns(g.res.val, vm.buffer)}
      [] c = BF_INPUT ->
            {LET rd == read(pt, vm.buffer, r) IN
             IF ~rd.res.ok THEN Fail(vm, dt, rd.res.err, rd.invoked)
             ELSE LET s == set_value(dt, rd.res.val) IN
                  IF s.panic THEN [Panic(vm, s.tape) EXCEPT !.io = rd.invoked]
                  ELSE IF ~s.res.ok THEN Fail(vm, s.tape, s.res.err, rd.invoked)
                  ELSE [Advance(vm, s.tape) EXCEPT !.io = rd.invoked]
             : r \in ReadReturns(vm.buffer)}
      [] c = BF_PTR_JUMP ->
            {IF g.panic THEN Panic(vm, g.tape)
             ELSE IF ~g.res.ok THEN Fail(vm, g.tape, g.res.err, <<>>)
             ELSE Advance(vm, set_pointer(g.tape, g.res.val))}
      [] c = BF_TO_BUF ->
            {IF g.panic THEN Panic(vm, g.tape)
             ELSE IF ~g.res.ok THEN Fail(vm, g.tape, g.res.err, <<>>)
             ELSE Advance([vm EXCEPT !.buffer = g.res.val], g.tape)}
      [] c = BF_FROM_BUF ->
            {LET s == set_value(dt, vm.buffer) IN
             IF s.panic THEN Panic(vm, s.tape)
             ELSE IF ~s.res.ok THEN Fail(vm, s.tape, s.res.err, <<>>)
             ELSE Advance(vm, s.tape)}
      [] c = BF_ROTATE -> {GetThenSet(vm, c)}
      [] c = BF_NAND -> {GetThenSet(vm, c)}
      [] c = BF_PAGE_JUMP ->
            {IF g.panic THEN Panic(vm, g.tape)
             ELSE IF ~g.res.ok THEN Fail(vm, g.tape, g.res.err, <<>>)
             ELSE Advance(vm, set_page(g.tape, g.res.val))}
      [] c = BF_PAGE_INC ->
            {IF o.panic THEN Panic(vm, o.tape) ELSE Advance(vm, o.tape)
             : o \in next_workspace(dt)}
      [] c = BF_PAGE_DEC ->
            {IF o.panic THEN Panic(vm, o.tape) ELSE Advance(vm, o.tape)
             : o \in prev_workspace(dt)}
      [] c = FIL_JUMP -> {Jump(vm, dt)}
      [] c = FIL_CHAR -> {Advance(vm, dt)}
      [] OTHER -> {Panic(vm, dt)}

-----------------------------------------------------------------------------
(* Inputs *)

\* all sequences over S of length at most n
SeqsUpTo(S, n) == UNION {[1..k -> S] : k \in 0..n}

\* "x" stands for every character outside the instruction alphabet
Alphabet == BF_CHARS \cup {"x"}

Repeat(c, n) == [k \in 1..n |-> c]
\* n times "+", then "[-]"
PlusLoop(n) == Repeat("+", n) \o <<"[", "-", "]">>
\* a unrecognized characters, "+", b unrecognized characters
FillerProg(a, b) == Repeat("x", a) \o <<"+">> \o Repeat("x", b)

\* programs with nested loops
NestedSources ==
    {<<"+", "+", "[", "[", "-", "]", "]">>,
     <<"[", "[", "]", "+", "]", "+">>,
     <<"+", "[", ">", "+", "[", "-", "]", "<", "-", "]">>,
     <<"x", "+", "[", "x", "[", "-", "]", "]">>}

Sources ==
    SeqsUpTo(Alphabet, MaxSrcLen)
    \cup {PlusLoop(n) : n \in 1..MaxPlus}
    \cup {FillerProg(a, b) : a \in 0..MaxRun, b \in 0..2}
    \cup {<<"x", "[", "x", "x", "-", "]", "x">>, <<"+", "^", ".", ",">>,
          <<"-", "^", ".", ",">>, <<"+", "[", "}", "]">>, <<"+", "[", "{", "]">>}
    \cup NestedSources

\* the peripheral tapes a VM is run against: one device and a native write hook
\* at address 1, or no device and a native read hook at address 0
DeviceBus == PeripheralTape_new(1, {1}, {}).val
HookBus == PeripheralTape_new(0, {}, {0}).val

\* (max_pages, num_workspaces, peripheral tape) of the VMs under test
VMConfigs ==
    {<<1, 0, DeviceBus>>, <<0, 1, HookBus>>, <<65536, 2, DeviceBus>>, <<2, 1, HookBus>>}

Cycles == {U32(c) : c \in 0..MaxCycles} \cup {U32Max}

-----------------------------------------------------------------------------
(* The virtual machine and its callers *)

NoResult == [of |-> "none", status |-> "none", cont |-> FALSE, err |-> <<>>]
\* what call f returned: r is its Result, cont the bool of an Ok(bool)
Returned(f, r) ==
    [of |-> f, status |-> IF r.ok THEN "Ok" ELSE "Err", cont |-> r.ok /\ r.val = TRUE,
     err |-> r.err]
Panicked(f) == [of |-> f, status |-> "panic", cont |-> FALSE, err |-> <<>>]
IdleCall == [name |-> "idle", cycles |-> U32(0), left |-> U32(0), n |-> 0]
NoOp == [op |-> "none", arg |-> 0, res |-> Ok(0), before |-> <<>>, invoked |-> <<>>]
NoRing == [dir |-> "none", count |-> 0, from |-> <<>>]

VM == [prog |-> prog, jump_map |-> jump_map, data_tape |-> data_tape,
       pointer |-> pointer, buffer |-> buffer]

\* the cell an access reads in the current state
CurrentCell ==
    IF data_tape.workspace_pointer > 0
    THEN ArrayGet(data_tape.workspaces[data_tape.workspace_pointer], data_tape.pointer)
    ELSE IF data_tape.page \in DOMAIN data_tape.tapes
    THEN ArrayGet(data_tape.tapes[data_tape.page], data_tape.pointer)
    ELSE 0

Init ==
    /\ code \in Sources
    /\ sanitize \in BOOLEAN
    /\ \E cfg \in VMConfigs :
          LET b == BFVM_new_with_workspaces(code, cfg[1], sanitize, cfg[2])
          IN  /\ peripheral_tape = cfg[3]
              /\ built = [ok |-> b.ok, err |-> b.err]
              /\ prog = IF b.ok THEN b.val.prog ELSE <<>>
              /\ jump_map = IF b.ok THEN b.val.jump_map ELSE EmptyMap
              /\ data_tape = IF b.ok THEN b.val.data_tape
                             ELSE new_with_workspaces(cfg[1], cfg[2])
              /\ pointer = 0
              /\ buffer = 0
    /\ call = IdleCall
    /\ result = NoResult
    /\ steps = 0
    /\ io = <<>>
    /\ last = NoOp
    /\ written = EmptyMap
    /\ ring = NoRing
    /\ panicked = FALSE

Idle == built.ok /\ ~panicked /\ call.name = "idle"

\* the effect of one call of next with outcome o on the VM's fields
Effect(o) ==
    /\ data_tape' = o.vm.data_tape
    /\ pointer' = o.vm.pointer
    /\ buffer' = o.vm.buffer
    /\ io' = o.io
    /\ steps' = IF ~o.panic /\ o.res.ok /\ o.res.val THEN steps + 1 ELSE steps
    /\ UNCHANGED <<code, sanitize, built, prog, jump_map, peripheral_tape,
                   last, written, ring>>

\* a caller calls next once
CallNext ==
    /\ Idle
    /\ steps < MaxSteps
    /\ \E o \in next(VM, peripheral_tape) :
          /\ Effect(o)
          /\ panicked' = o.panic
          /\ result' = IF o.panic THEN Panicked("next") ELSE Returned("next", o.res)
          /\ call' = IdleCall

\* a caller enters run
CallRun ==
    /\ Idle
    /\ call' = [name |-> "run", cycles |-> U32(0), left |-> U32(0), n |-> 0]
    /\ result' = NoResult
    /\ UNCHANGED <<code, sanitize, built, prog, jump_map, pointer, buffer, data_tape,
                   peripheral_tape, steps, io, last, written, ring, panicked>>

\* one iteration of  while self.next()? {}  (run, and run_for with cycles == 0)
RunStep ==
    /\ built.ok /\ ~panicked
    /\ call.name = "run" \/ (call.name = "run_for" /\ U32IsZero(call.cycles))
    /\ steps < MaxSteps
    /\ \E o \in next(VM, peripheral_tape) :
          /\ Effect(o)
          /\ panicked' = o.panic
          /\ IF o.panic
             THEN result' = Panicked(call.name) /\ call' = call
             ELSE IF o.res.ok /\ o.res.val
             THEN result' = result /\ call' = [call EXCEPT !.n = @ + 1]
             ELSE /\ result' = Returned(call.name, [o.res EXCEPT !.val = FALSE])
                  /\ call' = IdleCall

\* a caller enters run_for(cycles)
CallRunFor ==
    /\ Idle
    /\ \E cycles \in Cycles :
          call' = [name |-> "run_for", cycles |-> cycles, left |-> cycles, n |-> 0]
    /\ result' = NoResult
    /\ UNCHANGED <<code, sanitize, built, prog, jump_map, pointer, buffer, data_tape,
                   peripheral_tape, steps, io, last, written, ring, panicked>>

\* left += 1 on a u32: at 4294967295 the checked build panics and the unchecked
\* build wraps to 0
left_step(left) ==
    IF left = U32Max
    THEN {[left |-> left, panic |-> TRUE], [left |-> U32(0), panic |-> FALSE]}
    ELSE {[left |-> IF left.lo = U16Max THEN [hi |-> left.hi + 1, lo |-> 0]
                                         ELSE [hi |-> left.hi, lo |-> left.lo + 1],
           panic |-> FALSE]}

\* one iteration of  while left > 0 && self.next()? { left += 1; }  or the exit
\* of the loop
RunForStep ==
    /\ built.ok /\ ~panicked
    /\ call.name = "run_for" /\ ~U32IsZero(call.cycles)
    /\ IF ~U32IsZero(call.left)
       THEN /\ steps < MaxSteps
            /\ \E o \in next(VM, peripheral_tape) :
                  /\ Effect(o)
                  /\ IF o.panic
                     THEN panicked' = TRUE /\ result' = Panicked(call.name) /\ call' = call
                     ELSE IF o.res.ok /\ o.res.val
                     THEN \E l \in left_step(call.left) :
                             /\ panicked' = l.panic
                             /\ result' = IF l.panic THEN Panicked(call.name) ELSE result
                             /\ call' = [call EXCEPT !.left = l.left, !.n = @ + 1]
                     ELSE /\ panicked' = FALSE
                          /\ result' = Returned(call.name, [o.res EXCEPT !.val = FALSE])
                          /\ call' = IdleCall
       ELSE /\ result' = Returned(call.name, Ok(FALSE))
            /\ call' = IdleCall
            /\ UNCHANGED <<code, sanitize, built, prog, jump_map, pointer, buffer,
                           data_tape, peripheral_tape, steps, io, last, written, ring,
                           panicked>>

Next == CallNext \/ CallRun \/ RunStep \/ CallRunFor \/ RunForStep

Spec == Init /\ [][Next]_vars

-----------------------------------------------------------------------------
(* A DataTape driven directly by a caller *)

TapeMaxPages == {0, 2, 65536}
Addrs == {0, 65535}
Pages == {0, 1, 65535}
Values == {0, 7}

\* the fields of the model that belong to the VM and are not used here
NoVM ==
    /\ code = <<>>
    /\ sanitize = FALSE
    /\ prog = <<>>
    /\ jump_map = EmptyMap
    /\ pointer = 0
    /\ buffer = 0
    /\ call = IdleCall
    /\ result = NoResult
    /\ io = <<>>

InitTape ==
    /\ NoVM
    /\ built = [ok |-> FALSE, err |-> <<>>]
    /\ \E mp \in TapeMaxPages, n \in 0..MaxWorkspaces :
          data_tape = new_with_workspaces(mp, n)
    /\ peripheral_tape = PeripheralTape_new(0, {}, {}).val
    /\ steps = 0
    /\ last = NoOp
    /\ written = EmptyMap
    /\ ring = NoRing
    /\ panicked = FALSE

TapeFrame ==
    UNCHANGED <<code, sanitize, built, prog, jump_map, pointer, buffer, peripheral_tape,
                call, result, io>>

TapeReady == ~panicked /\ steps < MaxOps

SetPointer ==
    /\ TapeReady
    /\ \E a \in Addrs :
          /\ data_tape' = set_pointer(data_tape, a)
          /\ last' = [op |-> "set_pointer", arg |-> a, res |-> Ok(0),
                      before |-> data_tape, invoked |-> <<>>]
    /\ steps' = steps + 1
    /\ ring' = NoRing
    /\ UNCHANGED <<written, panicked>>
    /\ TapeFrame

SetPage ==
    /\ TapeReady
    /\ \E a \in Pages :
          /\ data_tape' = set_page(data_tape, a)
          /\ last' = [op |-> "set_page", arg |-> a, res |-> Ok(0),
                      before |-> data_tape, invoked |-> <<>>]
    /\ steps' = steps + 1
    /\ ring' = NoRing
    /\ UNCHANGED <<written, panicked>>
    /\ TapeFrame

SetValue ==
    /\ TapeReady
    /\ \E v \in Values :
          LET o == set_value(data_tape, v) IN
          /\ data_tape' = o.tape
          /\ panicked' = o.panic
          /\ last' = [op |-> "set_value", arg |-> v, res |-> o.res,
                      before |-> data_tape, invoked |-> <<>>]
          /\ written' = IF o.res.ok /\ ~o.panic /\ data_tape.workspace_pointer = 0
                        THEN Insert(written, <<data_tape.page, data_tape.pointer>>, v)
                        ELSE written
    /\ steps' = steps + 1
    /\ ring' = NoRing
    /\ TapeFrame

GetValue ==
    /\ TapeReady
    /\ LET o == get_value(data_tape) IN
          /\ data_tape' = o.tape
          /\ panicked' = o.panic
          /\ last' = [op |-> "get_value", arg |-> 0, res |-> o.res,
                      before |-> data_tape, invoked |-> <<>>]
    /\ steps' = steps + 1
    /\ ring' = NoRing
    /\ UNCHANGED written
    /\ TapeFrame

\* the streak of calls in direction dir: it starts at workspace index 0 and is
\* counted up to num_workspaces + 1 calls
Streak(dir) ==
    IF ring.dir = dir /\ ring.count < data_tape.num_workspaces + 1
    THEN [ring EXCEPT !.count = @ + 1]
    ELSE IF data_tape.workspace_pointer = 0
    THEN [dir |-> dir, count |-> 1, from |-> data_tape]
    ELSE NoRing

NextWorkspace ==
    /\ TapeReady
    /\ \E o \in next_workspace(data_tape) :
          /\ data_tape' = o.tape
          /\ panicked' = o.panic
          /\ last' = [op |-> "next_workspace", arg |-> 0, res |-> Ok(0),
                      before |-> data_tape, invoked |-> <<>>]
    /\ steps' = steps + 1
    /\ ring' = Streak("next")
    /\ UNCHANGED written
    /\ TapeFrame

PrevWorkspace ==
    /\ TapeReady
    /\ \E o \in prev_workspace(data_tape) :
          /\ data_tape' = o.tape
          /\ panicked' = o.panic
          /\ last' = [op |-> "prev_workspace", arg |-> 0, res |-> Ok(0),
                      before |-> data_tape, invoked |-> <<>>]
    /\ steps' = steps + 1
    /\ ring' = Streak("prev")
    /\ UNCHANGED written
    /\ TapeFrame

NextTape == SetPointer \/ SetPage \/ SetValue \/ GetValue \/ NextWorkspace \/ PrevWorkspace

SpecTape == InitTape /\ [][NextTape]_vars

-----------------------------------------------------------------------------
(* A PeripheralTape constructed and used directly by a caller *)

DeviceCounts == 0..MaxDevices \cup {65536, 65537}
HookAddrs == {1, 2, 65535}
BusAddrs == {0, 1, 2, 3, 65535}

InitBus ==
    /\ NoVM
    /\ built = [ok |-> FALSE, err |-> <<>>]
    /\ data_tape = new_with_workspaces(0, 0)
    /\ peripheral_tape = [peripherals |-> 0, native_write |-> {}, native_read |-> {}]
    /\ steps = 0
    /\ last = NoOp
    /\ written = EmptyMap
    /\ ring = NoRing
    /\ panicked = FALSE

BusFrame ==
    UNCHANGED <<code, sanitize, prog, jump_map, pointer, buffer, data_tape, call, result,
                steps, io, written, ring, panicked>>

\* PeripheralTape::new on a device vector and two hook maps
New ==
    /\ last.op = "none"
    /\ \E n \in DeviceCounts, nw \in SUBSET HookAddrs, nr \in SUBSET HookAddrs :
          LET r == PeripheralTape_new(n, nw, nr) IN
          /\ last' = [op |-> "new", arg |-> <<n, nw, nr>>, res |-> [r EXCEPT !.val = 0],
                      before |-> <<>>, invoked |-> <<>>]
          /\ built' = [ok |-> r.ok, err |-> r.err]
          /\ peripheral_tape' = IF r.ok THEN r.val ELSE peripheral_tape
    /\ BusFrame

Write ==
    /\ built.ok
    /\ \E value \in Values, address \in BusAddrs :
          \E r \in WriteReturns(value, address) :
             LET w == write(peripheral_tape, value, address, r) IN
             last' = [op |-> "write", arg |-> <<value, address>>, res |-> w.res,
                      before |-> <<>>, invoked |-> w.invoked]
    /\ UNCHANGED <<built, peripheral_tape>>
    /\ BusFrame

Read ==
    /\ built.ok
    /\ \E address \in BusAddrs :
          \E r \in ReadReturns(address) :
             LET rd == read(peripheral_tape, address, r) IN
             last' = [op |-> "read", arg |-> <<0, address>>, res |-> rd.res,
                      before |-> <<>>, invoked |-> rd.invoked]
    /\ UNCHANGED <<built, peripheral_tape>>
    /\ BusFrame

NextBus == New \/ Write \/ Read

SpecBus == InitBus /\ [][NextBus]_vars

-----------------------------------------------------------------------------
(* The virtual machine on programs that read a value and work on it *)

\* "," stores what the bus returns; the instructions after it work on that cell
OpsSources ==
    {<<",">> \o Repeat("~", WordBits),
     <<",", "+", "-">>, <<",", "-", "+">>,
     <<",", ">", "<">>, <<",", "<", ">">>}

InitOps ==
    /\ code \in OpsSources
    /\ sanitize \in BOOLEAN
    /\ LET b == BFVM_new_with_workspaces(code, U16Mod, sanitize, 0)
       IN  /\ peripheral_tape = HookBus
           /\ built = [ok |-> b.ok, err |-> b.err]
           /\ prog = b.val.prog
           /\ jump_map = b.val.jump_map
           /\ data_tape = b.val.data_tape
           /\ pointer = 0
           /\ buffer = 0
    /\ call = IdleCall
    /\ result = NoResult
    /\ steps = 0
    /\ io = <<>>
    /\ last = NoOp
    /\ written = EmptyMap
    /\ ring = NoRing
    /\ panicked = FALSE

\* a caller calls next once; written keeps what "," stored and where
StepOps ==
    /\ Idle
    /\ pointer < Len(prog)
    /\ \E o \in next(VM, peripheral_tape) :
          /\ data_tape' = o.vm.data_tape
          /\ pointer' = o.vm.pointer
          /\ buffer' = o.vm.buffer
          /\ io' = o.io
          /\ steps' = IF ~o.panic /\ o.res.ok /\ o.res.val THEN steps + 1 ELSE steps
          /\ written' = IF prog[pointer + 1] = BF_INPUT /\ ~o.panic /\ o.res.ok
                        THEN Insert(written, <<data_tape.page, data_tape.pointer>>,
                                    CurrentCell')
                        ELSE written
          /\ panicked' = o.panic
          /\ result' = IF o.panic THEN Panicked("next") ELSE Returned("next", o.res)
          /\ call' = IdleCall
    /\ UNCHANGED <<code, sanitize, built, prog, jump_map, peripheral_tape, last, ring>>

NextOps == StepOps

SpecOps == InitOps /\ [][NextOps]_vars

-----------------------------------------------------------------------------
(* Properties of run_for and of program construction *)

\* C1: a run_for(cycles) with cycles > 0 never performs more than cycles
\* successful steps of next (it returns after at most cycles steps, leaving the
\* VM at the next instruction).
C1_RunForAtMostCycles ==
    (call.name = "run_for" /\ ~U32IsZero(call.cycles) /\ call.cycles.hi = 0)
        => call.n <= call.cycles.lo

\* the maximal runs <<s, e>> of unrecognized characters of src: positions s..e-1
\* (0-based) are unrecognized, position s-1 and position e are not
FillerRuns(src) ==
    {se \in (0..Len(src)) \X (0..Len(src)) :
        /\ se[1] < se[2]
        /\ \A k \in se[1]..(se[2] - 1) : ~is_bf_char(src[k + 1])
        /\ se[1] > 0 => is_bf_char(src[se[1]])
        /\ se[2] < Len(src) => is_bf_char(src[se[2] + 1])}

\* C2: in raw mode every maximal run s..e-1 of unrecognized characters compiles
\* to a filler-jump at s whose jump-map target is e and plain filler at
\* s+1..e-1, and a step from s puts the instruction pointer on e.
C2_FillerRunsCompressed ==
    (built.ok /\ ~sanitize) =>
        \A se \in FillerRuns(code) :
            /\ prog[se[1] + 1] = FIL_JUMP
            /\ se[1] \in DOMAIN jump_map
            /\ jump_map[se[1]] = se[2]
            /\ \A k \in (se[1] + 1)..(se[2] - 1) : prog[k + 1] = FIL_CHAR
            /\ \A o \in next([VM EXCEPT !.pointer = se[1]], peripheral_tape) :
                  ~o.panic /\ o.res.ok /\ o.vm.pointer = se[2]

-----------------------------------------------------------------------------
(* Properties of the data tape *)

IsAccess == last.op \in {"get_value", "set_value"}

\* C3: with a nonzero workspace index get_value and set_value succeed whatever
\* the page register holds (the page-limit check is bypassed, InvalidPage is
\* never returned) and act on the selected workspace page at the pointer.
C3_WorkspaceBypassesPageLimit ==
    (IsAccess /\ last.before.workspace_pointer # 0) =>
        /\ last.res.ok
        /\ last.op = "get_value" =>
              last.res.val = ArrayGet(last.before.workspaces[last.before.workspace_pointer],
                                      last.before.pointer)
        /\ last.op = "set_value" =>
              ArrayGet(data_tape.workspaces[data_tape.workspace_pointer],
                       data_tape.pointer) = last.arg

\* C4: with workspace index 0, get_value and set_value fail, with
\* InvalidPage(page, max_pages), exactly when page >= max_pages; a failing access
\* leaves the tape as it was (no cell changed, no page materialized); set_pointer
\* and set_page store whatever value they are given and never fail.
C4_InvalidPageExactly ==
    /\ (IsAccess /\ last.before.workspace_pointer = 0) =>
          /\ ~last.res.ok <=> last.before.page >= last.before.max_pages
          /\ ~last.res.ok =>
                /\ last.res.err = InvalidPage(last.before.page, last.before.max_pages)
                /\ data_tape = last.before
          /\ ~panicked
    /\ last.op = "set_pointer" =>
          /\ ~panicked /\ last.res.ok
          /\ data_tape = [last.before EXCEPT !.pointer = last.arg]
    /\ last.op = "set_page" =>
          /\ ~panicked /\ last.res.ok
          /\ data_tape = [last.before EXCEPT !.page = last.arg]

C4_Witness ==
    /\ last.op = "set_value" /\ ~last.res.ok
    /\ last.before.workspace_pointer = 0
    /\ last.before.max_pages = 2 /\ last.before.page = 65535
    /\ last.before.tapes # EmptyMap

\* the value last stored at (page, address) by a set_value with workspace index
\* 0, or 0 if there was none
LastWritten(page, address) ==
    IF <<page, address>> \in DOMAIN written THEN written[<<page, address>>] ELSE 0

\* C5: with workspace index 0 and page < max_pages, get_value returns the value
\* of the most recent set_value at the same (page, pointer), or 0 if there was
\* none; every cell of every page holds its last written value, whatever was
\* written at other pointers or pages and whatever reads materialized.
C5_ReadAfterWrite ==
    /\ (last.op = "get_value" /\ last.res.ok /\ last.before.workspace_pointer = 0) =>
          last.res.val = LastWritten(last.before.page, last.before.pointer)
    /\ \A pg \in DOMAIN data_tape.tapes :
          \A a \in DOMAIN data_tape.tapes[pg] :
              data_tape.tapes[pg][a] = LastWritten(pg, a)
    /\ \A key \in DOMAIN written :
          /\ key[1] \in DOMAIN data_tape.tapes
          /\ ArrayGet(data_tape.tapes[key[1]], key[2]) = written[key]

C5_Witness ==
    /\ last.op = "get_value" /\ last.res.ok /\ last.res.val = 7
    /\ last.before.workspace_pointer = 0
    /\ Cardinality(DOMAIN written) >= 2

\* C6: from a state with workspace index 0, num_workspaces + 1 calls of
\* next_workspace (prev_workspace) complete and return the workspace index to 0
\* with the page register incremented (decremented) by exactly 1, the pointer
\* and all cells unchanged.
C6_WorkspaceRing ==
    ring.dir # "none" =>
        /\ ~panicked
        /\ ring.count = data_tape.num_workspaces + 1 =>
              /\ data_tape.workspace_pointer = 0
              /\ data_tape.page = IF ring.dir = "next"
                                  THEN wrapping_add(ring.from.page, 1)
                                  ELSE wrapping_sub(ring.from.page, 1)
              /\ data_tape = [ring.from EXCEPT !.page = data_tape.page]

-----------------------------------------------------------------------------
(* Properties of the peripheral tape *)

\* the least element of S, or 65536 when S is empty
IsLeast(l, S) ==
    /\ \A a \in S : l <= a
    /\ IF S = {} THEN l = 65536 ELSE l \in S

\* C7: PeripheralTape::new fails, with OverlappingPeripheralAddresses(device
\* count, least), exactly when the device count is greater than least, the
\* smallest address of the two native maps (65536 when both are empty); it
\* succeeds when the device count equals least; 3 devices with a hook at address
\* 2 fail with (3, 2).
C7_OverlapExactly ==
    last.op = "new" =>
        LET n == last.arg[1]
            hooks == last.arg[2] \cup last.arg[3]
        IN  /\ \E l \in hooks \cup {65536} :
                  /\ IsLeast(l, hooks)
                  /\ ~last.res.ok <=> n > l
                  /\ ~last.res.ok => last.res.err = OverlappingPeripheralAddresses(n, l)
            /\ built.ok = last.res.ok
            /\ last.res.ok => /\ peripheral_tape.peripherals = n
                              /\ peripheral_tape.native_write = last.arg[2]
                              /\ peripheral_tape.native_read = last.arg[3]
            /\ (n = 3 /\ 2 \in hooks /\ 1 \notin hooks) =>
                  last.res = Err(OverlappingPeripheralAddresses(3, 2))

C7_Witness ==
    /\ last.op = "new"
    /\ last.arg = <<3, {2}, {}>>
    /\ last.res = Err(OverlappingPeripheralAddresses(3, 2))

\* C8: on a constructed peripheral tape, write(value, address) invokes exactly
\* one target, the native write hook at the address if there is one, otherwise
\* the device at index address if address < device count, and otherwise invokes
\* nothing and returns InvalidPeripheralTapeAccess(address); read is the same
\* with the native read map; what the invoked target returns is returned
\* unchanged.
C8_Dispatch ==
    (last.op \in {"write", "read"}) =>
        LET address == last.arg[2]
            hooks == IF last.op = "write" THEN peripheral_tape.native_write
                     ELSE peripheral_tape.native_read
            hook == IF last.op = "write" THEN "native_write" ELSE "native_read"
            device == IF last.op = "write" THEN "device_write" ELSE "device_read"
            target == IF address \in hooks THEN hook
                      ELSE IF address < peripheral_tape.peripherals THEN device
                      ELSE "none"
        IN  IF target = "none"
            THEN /\ last.invoked = <<>>
                 /\ last.res = Err(InvalidPeripheralTapeAccess(address))
            ELSE /\ Len(last.invoked) = 1
                 /\ last.invoked[1].target = target
                 /\ last.invoked[1].at = address
                 /\ last.op = "write" => last.invoked[1].value = last.arg[1]
                 /\ last.res = last.invoked[1].ret

C8_Witness ==
    /\ last.op = "write"
    /\ Len(last.invoked) = 1
    /\ last.invoked[1].target = "native_write"
    /\ last.arg[2] = peripheral_tape.peripherals
    /\ peripheral_tape.peripherals > 0
    /\ ~last.res.ok

-----------------------------------------------------------------------------
(* Properties of the construction and of the run of a VM *)

\* the characters that get an opcode of their own
Compiled == IF sanitize THEN SelectSeq(code, is_bf_char) ELSE code

\* number of "[" minus number of "]" among the first i characters
RECURSIVE Depth(_, _)
Depth(src, i) ==
    IF i = 0 THEN 0
    ELSE Depth(src, i - 1) + (IF src[i] = "[" THEN 1 ELSE IF src[i] = "]" THEN -1 ELSE 0)

Balanced(src) ==
    /\ \A i \in 1..Len(src) : Depth(src, i) >= 0
    /\ Depth(src, Len(src)) = 0

\* 0-based indices of the "]" with no open "[" before them
BadCloses(src) == {i - 1 : i \in {j \in 1..Len(src) : src[j] = "]" /\ Depth(src, j) < 0}}
\* 0-based indices of the "[" that no later "]" closes
OpenLeft(src) ==
    {i - 1 : i \in {j \in 1..Len(src) :
                      /\ src[j] = "["
                      /\ \A k \in j..Len(src) : Depth(src, k) >= Depth(src, j)}}

SetMax(S) == CHOOSE x \in S : \A y \in S : y <= x

\* C9: the construction succeeds iff the "[" and "]" of the compiled program
\* are balanced; otherwise it fails with UnmachedLoopParentheses(p), p the index
\* of the first "]" with no open "[" before it or, if there is none, the last
\* unpopped index (the last "[" left open); "]" alone and "[" alone give 0.
C9_UnmatchedExactly ==
    /\ built.ok <=> Balanced(Compiled)
    /\ ~built.ok =>
          built.err = UnmachedLoopParentheses(
              IF BadCloses(Compiled) # {} THEN SetMin(BadCloses(Compiled))
              ELSE SetMax(OpenLeft(Compiled)))
    /\ (Compiled = <<"]">> \/ Compiled = <<"[">>) =>
          built = [ok |-> FALSE, err |-> UnmachedLoopParentheses(0)]
    /\ ~built.ok => (steps = 0 /\ prog = <<>> /\ call = IdleCall)

C9_Witness ==
    /\ code = <<"[", "[">>
    /\ built = [ok |-> FALSE, err |-> UnmachedLoopParentheses(1)]

PlusLoopN == {n \in 1..MaxPlus : code = PlusLoop(n)}

\* C10: the program of n "+" followed by "[-]", run from the initial state with
\* max_pages >= 1, never errs, performs exactly n + 1 + 2n successful steps, is
\* halted exactly then (next returns halted and run returns only then), and
\* leaves the cell of the loop at 0.
C10_PlusLoopSteps ==
    \A n \in PlusLoopN :
        (built.ok /\ data_tape.max_pages >= 1) =>
            /\ result.status # "Err"
            /\ call.name # "run_for" => ~panicked
            /\ steps <= n + 1 + 2 * n
            /\ pointer >= Len(prog) <=> steps = n + 1 + 2 * n
            /\ pointer >= Len(prog) =>
                  /\ data_tape.page = 0 /\ data_tape.pointer = 0
                  /\ 0 \in DOMAIN data_tape.tapes
                  /\ ArrayGet(data_tape.tapes[0], 0) = 0
            /\ (result.of \in {"next", "run"} /\ result.status = "Ok" /\ ~result.cont) =>
                  pointer >= Len(prog)

C10_Witness ==
    /\ code = <<"+", "+", "+", "[", "-", "]">>
    /\ data_tape.max_pages >= 1
    /\ steps = 10
    /\ pointer = 6
    /\ result.of = "run" /\ result.status = "Ok"

\* BFVM::run as a function: the states in which  while self.next()? {}  can
\* return within fuel successful steps, with what it returns
RECURSIVE run(_, _, _)
run(vm, pt, fuel) ==
    UNION {IF o.panic THEN {}
           ELSE IF ~o.res.ok
           THEN {[data_tape |-> o.vm.data_tape, buffer |-> o.vm.buffer,
                  res |-> Err(o.res.err)]}
           ELSE IF ~o.res.val
           THEN {[data_tape |-> o.vm.data_tape, buffer |-> o.vm.buffer,
                  res |-> Ok(0)]}
           ELSE IF fuel = 0 THEN {}
           ELSE run(o.vm, pt, fuel - 1) : o \in next(vm, pt)}

-----------------------------------------------------------------------------
(* Properties of loops *)

\* the pairs <<o, c>> (0-based) of a "[" and the "]" that closes it: the first
\* later position at which the depth falls below the depth at the "["
LoopPairs(src) ==
    {oc \in (0..Len(src)) \X (0..Len(src)) :
        /\ oc[1] < oc[2] /\ oc[2] < Len(src)
        /\ src[oc[1] + 1] = "["
        /\ Depth(src, oc[2] + 1) < Depth(src, oc[1] + 1)
        /\ \A k \in (oc[1] + 1)..oc[2] : Depth(src, k) >= Depth(src, oc[1] + 1)}

\* a call of next has just returned Ok(true)
Stepped == built.ok /\ steps' = steps + 1

C11_PairsInMap ==
    built.ok =>
        \A oc \in LoopPairs(Compiled) :
            /\ oc[1] \in DOMAIN jump_map /\ jump_map[oc[1]] = oc[2] + 1
            /\ oc[2] \in DOMAIN jump_map /\ jump_map[oc[2]] = oc[1] + 1

C11_LoopStep ==
    Stepped =>
        \A oc \in LoopPairs(Compiled) :
            /\ pointer = oc[1] =>
                  pointer' = IF CurrentCell = 0 THEN oc[2] + 1 ELSE oc[1] + 1
            /\ pointer = oc[2] =>
                  pointer' = IF CurrentCell # 0 THEN oc[1] + 1 ELSE oc[2] + 1

\* C11: in every balanced program, nested loops included, the jump map holds
\* jump_map[o] = c + 1 and jump_map[c] = o + 1 for each "[" at o and its
\* matching "]" at c; a step on "[" with the cell 0 goes to c + 1, a step on "]"
\* with the cell nonzero goes to o + 1, and in the other two cases the
\* instruction pointer advances by 1.
C11_LoopJumps == [](C11_PairsInMap) /\ [][C11_LoopStep]_vars

\* the inner "]" of "++[[-]]" has jumped back to one past the inner "["
C11_Witness ==
    /\ code = <<"+", "+", "[", "[", "-", "]", "]">>
    /\ pointer = 4
    /\ steps = 6
    /\ CurrentCell = 1

-----------------------------------------------------------------------------
(* Properties of the jump map *)

\* the opcodes whose step looks its position up in the jump map
JumpCodes == {BF_LOOP_OPEN, BF_LOOP_CLOSE, FIL_JUMP}

\* the keys add_char_jumps gives the map, and the keys create_jump_map gives it
FillerKeys == IF sanitize THEN {} ELSE DOMAIN add_char_jumps(convert_bf_str(code)).jump_map
BracketKeys == DOMAIN create_jump_map(prog).val

\* C12: in every constructed VM, in both modes, every "[", "]" and filler-jump
\* position has a jump-map entry and every opcode is a defined one, so no step
\* panics on a missing entry or on an undefined opcode (the only step that can
\* panic is a workspace move); the bracket map and the filler map share no key.
C12_JumpMapTotal ==
    built.ok =>
        /\ \A i \in 0..(Len(prog) - 1) :
              /\ prog[i + 1] \in 0..FIL_JUMP
              /\ prog[i + 1] \in JumpCodes => i \in DOMAIN jump_map
        /\ FillerKeys \cap BracketKeys = {}
        /\ DOMAIN jump_map = FillerKeys \cup BracketKeys
        /\ \A o \in next(VM, peripheral_tape) :
              o.panic => /\ pointer < Len(prog)
                         /\ prog[pointer + 1] \in {BF_PAGE_INC, BF_PAGE_DEC}

\* a raw program with a filler run and a loop, after the filler jump was taken
C12_Witness ==
    /\ built.ok /\ ~sanitize
    /\ FillerKeys # {} /\ BracketKeys # {}
    /\ steps = 1
    /\ pointer = Len(prog)

-----------------------------------------------------------------------------
(* Raw mode against sanitized mode *)

\* the sanitized-mode VM built from the same text with the same parameters
SanitizedTwin ==
    BFVM_new_with_workspaces(code, data_tape.max_pages, TRUE, data_tape.num_workspaces)

\* C13: a raw-mode VM and a sanitized-mode VM built from the same text either
\* both fail construction or, run to completion against the same peripherals,
\* end in the same state: whenever run has returned on the raw VM, its tape,
\* buffer and result are among those run can return with on the sanitized VM.
C13_RawRefinesSanitized ==
    ~sanitize =>
        /\ built.ok <=> BFVM_new_with_workspaces(code, 1, TRUE, 0).ok
        /\ (built.ok /\ call = IdleCall /\ result.of = "run"
                /\ result.status \in {"Ok", "Err"}) =>
              [data_tape |-> data_tape, buffer |-> buffer,
               res |-> IF result.status = "Ok" THEN Ok(0) ELSE Err(result.err)]
                  \in run(SanitizedTwin.val, peripheral_tape, MaxSteps)

-----------------------------------------------------------------------------
(* Properties of the workspaces *)

\* arrays a and b hold the same value in every cell but (possibly) cell i
SameButCell(a, b, i) ==
    \A x \in (DOMAIN a \cup DOMAIN b) \ {i} : ArrayGet(a, x) = ArrayGet(b, x)
SameCells(a, b) == \A x \in DOMAIN a \cup DOMAIN b : ArrayGet(a, x) = ArrayGet(b, x)

\* C14: the workspace index is always in 0..num_workspaces and the vector holds
\* num_workspaces arrays, so no access indexes outside it; set_value with
\* index k >= 1 changes only cell `pointer` of workspace k - 1 (and no page),
\* and set_value with index 0 changes no workspace cell.
C14_WorkspaceWrites ==
    /\ data_tape.workspace_pointer \in 0..data_tape.num_workspaces
    /\ Len(data_tape.workspaces) = data_tape.num_workspaces
    /\ last.op \in {"set_value", "get_value"} => ~panicked
    /\ last.op = "set_value" =>
          LET b == last.before
              k == b.workspace_pointer
          IN  /\ \A w \in 1..b.num_workspaces :
                    IF w = k
                    THEN /\ SameButCell(data_tape.workspaces[w], b.workspaces[w], b.pointer)
                         /\ last.res.ok =>
                               ArrayGet(data_tape.workspaces[w], b.pointer) = last.arg
                    ELSE SameCells(data_tape.workspaces[w], b.workspaces[w])
              /\ k >= 1 => data_tape.tapes = b.tapes

\* a second write to workspace 1 (the vector's index 0) at another address, the
\* first one still in place
C14_Witness ==
    /\ last.op = "set_value" /\ last.res.ok /\ last.arg = 7
    /\ last.before.workspace_pointer = 1
    /\ data_tape.num_workspaces = 2
    /\ last.before.pointer = 65535
    /\ ArrayGet(data_tape.workspaces[1], 0) = 7
    /\ ArrayGet(data_tape.workspaces[1], 65535) = 7

\* C15: the page arithmetic of the workspace ring wraps modulo 65536 and never
\* fails: prev_workspace at page 0, index 0 gives page 65535, index
\* num_workspaces; next_workspace at page 65535, index num_workspaces gives
\* page 0, index 0; next after prev and prev after next restore page and index.
C15_RingWraps ==
    /\ last.op \in {"next_workspace", "prev_workspace"} =>
          LET b == last.before IN
          /\ ~panicked
          /\ (last.op = "prev_workspace" /\ b.page = 0 /\ b.workspace_pointer = 0) =>
                /\ data_tape.page = U16Max
                /\ data_tape.workspace_pointer = b.num_workspaces
          /\ (last.op = "next_workspace" /\ b.page = U16Max
                  /\ b.workspace_pointer = b.num_workspaces) =>
                /\ data_tape.page = 0
                /\ data_tape.workspace_pointer = 0
    /\ last.op = "prev_workspace" =>
          \A o \in next_workspace(data_tape) :
              /\ ~o.panic
              /\ o.tape.page = last.before.page
              /\ o.tape.workspace_pointer = last.before.workspace_pointer
    /\ last.op = "next_workspace" =>
          \A o \in prev_workspace(data_tape) :
              /\ ~o.panic
              /\ o.tape.page = last.before.page
              /\ o.tape.workspace_pointer = last.before.workspace_pointer

-----------------------------------------------------------------------------
(* Properties of the arithmetic instructions *)

RotateSource == <<",">> \o Repeat("~", WordBits)

\* the rotation by one bit to the left
rotate_back(v) == (v % 32768) * 2 + (v \div 32768)

\* n successive rotations
RECURSIVE rotate_n(_, _)
rotate_n(v, n) == IF n = 0 THEN v ELSE rotate_n(rotate(v), n - 1)

\* the value "," stored in the current cell
Stored == written[<<data_tape.page, data_tape.pointer>>]

\* a step of "~" replaces the cell's v by (v >> 1) | ((v & 1) << 15)
C16_RotateStep ==
    (Stepped /\ prog[pointer + 1] = BF_ROTATE) =>
        /\ CurrentCell' = (CurrentCell \div 2) + (CurrentCell % 2) * 32768
        /\ rotate_back(CurrentCell') = CurrentCell
        /\ pointer' = pointer + 1

\* after the 16 "~" of RotateSource the cell holds what "," stored; on all
\* 16-bit values rotate has the two-sided inverse rotate_back and order 16
C16_RotateRestores ==
    (code = RotateSource /\ pointer = Len(prog)) =>
        /\ CurrentCell = Stored
        /\ Stored = 1 =>
              \A v \in 0..U16Max :
                  /\ rotate(v) \in 0..U16Max
                  /\ rotate_back(rotate(v)) = v
                  /\ rotate(rotate_back(v)) = v
                  /\ rotate_n(v, WordBits) = v

\* C16: "~" replaces the cell's value v by (v >> 1) | ((v & 1) << 15); this is
\* a bijection on the 16-bit values, and 16 successive "~" restore v.
C16_Rotate == [](C16_RotateRestores) /\ [][C16_RotateStep]_vars

\* 0xAAAA has been rotated 16 times
C16_Witness ==
    /\ code = RotateSource
    /\ pointer = Len(prog)
    /\ steps = WordBits + 1
    /\ Stored = 43690
    /\ CurrentCell = 43690

IncDecSources == {<<",", "+", "-">>, <<",", "-", "+">>}
MoveSources == {<<",", ">", "<">>, <<",", "<", ">">>}

\* the cells of tape record t, without the pointer that selects one
Cells(t) == [tapes |-> t.tapes, workspaces |-> t.workspaces]

\* "+" and "-" step the cell by one modulo 65536, ">" and "<" step the tape
\* pointer by one modulo 65536 and change no cell
C17_ArithStep ==
    Stepped =>
        LET c == prog[pointer + 1] IN
        /\ c = BF_DATA_INC =>
              CurrentCell' = IF CurrentCell = U16Max THEN 0 ELSE CurrentCell + 1
        /\ c = BF_DATA_DEC =>
              CurrentCell' = IF CurrentCell = 0 THEN U16Max ELSE CurrentCell - 1
        /\ c = BF_PTR_INC =>
              /\ data_tape'.pointer =
                     IF data_tape.pointer = U16Max THEN 0 ELSE data_tape.pointer + 1
              /\ Cells(data_tape') = Cells(data_tape)
        /\ c = BF_PTR_DEC =>
              /\ data_tape'.pointer =
                     IF data_tape.pointer = 0 THEN U16Max ELSE data_tape.pointer - 1
              /\ Cells(data_tape') = Cells(data_tape)
        /\ c \in {BF_DATA_INC, BF_DATA_DEC, BF_PTR_INC, BF_PTR_DEC} =>
              pointer' = pointer + 1 /\ data_tape'.page = data_tape.page

\* the pairs undo each other, and no step of them fails
C17_ArithInverse ==
    /\ ~panicked
    /\ result.status = "Err" => (pointer < Len(prog) /\ prog[pointer + 1] = BF_INPUT)
    /\ (code \in IncDecSources \cup MoveSources /\ pointer = Len(prog)) =>
          /\ data_tape.pointer = 0
          /\ CurrentCell = Stored
          /\ DOMAIN data_tape.tapes = {0}
          /\ (code = <<",", "+", "-">> /\ Stored = 1) =>
                \A v \in 0..U16Max :
                    /\ wrapping_sub(wrapping_add(v, 1), 1) = v
                    /\ wrapping_add(wrapping_sub(v, 1), 1) = v
    /\ (code = <<",", "+", "-">> /\ pointer = 2 /\ Stored = U16Max) => CurrentCell = 0
    /\ (code = <<",", "-", "+">> /\ pointer = 2 /\ Stored = 0) => CurrentCell = U16Max

\* C17: "+" followed by "-" and "-" followed by "+" restore the cell, ">"
\* followed by "<" and "<" followed by ">" restore the tape pointer, for every
\* 16-bit value, 0 and 65535 included: "+" at 65535 gives 0 and "-" at 0 gives
\* 65535 without an error, and ">" and "<" change no cell.
C17_Arith == [](C17_ArithInverse) /\ [][C17_ArithStep]_vars

\* 65535 has been stepped up to 0 and back down to 65535
C17_Witness ==
    /\ code = <<",", "+", "-">>
    /\ pointer = Len(prog)
    /\ written = Insert(EmptyMap, <<0, 0>>, U16Max)
    /\ CurrentCell = U16Max
    /\ result.status = "Ok"

-----------------------------------------------------------------------------
(* Properties of failing steps *)

\* page pg of tape record t; a page that was never touched reads as zeros
PageOf(t, pg) == IF pg \in DOMAIN t.tapes THEN t.tapes[pg] ELSE ZeroArray

\* tape records t1 and t2 hold the same value in every cell of every page and
\* of every workspace
SameValues(t1, t2) ==
    /\ \A pg \in DOMAIN t1.tapes \cup DOMAIN t2.tapes :
          SameCells(PageOf(t1, pg), PageOf(t2, pg))
    /\ Len(t1.workspaces) = Len(t2.workspaces)
    /\ \A w \in 1..Len(t1.workspaces) : SameCells(t1.workspaces[w], t2.workspaces[w])

ErrorKinds == {"InvalidPage", "InvalidPeripheralTapeAccess", "PeripheralIOErr"}

\* a call of next has just returned an error (to its caller, to run or to
\* run_for)
StepFailed == built.ok /\ result'.status = "Err"

C18_FailedStep ==
    StepFailed =>
        /\ pointer' = pointer
        /\ buffer' = buffer
        /\ data_tape'.pointer = data_tape.pointer
        /\ data_tape'.page = data_tape.page
        /\ data_tape'.workspace_pointer = data_tape.workspace_pointer
        /\ SameValues(data_tape', data_tape)
        /\ steps' = steps
        /\ call' = IdleCall
        /\ result'.of = IF call.name = "idle" THEN "next" ELSE call.name

C18_FailedAt ==
    (built.ok /\ result.status = "Err") =>
        /\ result.err[1] \in ErrorKinds
        /\ call = IdleCall
        /\ pointer < Len(prog)
        /\ \E o \in next(VM, peripheral_tape) : ~o.panic /\ o.res = Err(result.err)

\* C18: a step of next that returns an error (InvalidPage,
\* InvalidPeripheralTapeAccess or an error of a peripheral) leaves the
\* instruction pointer, the buffer, the tape pointer, the page, the workspace
\* index and the value of every cell unchanged; the failing instruction is not
\* skipped (the instruction pointer stays on it), and run and run_for return
\* the error at that instruction.
C18_FailureKeepsState == [](C18_FailedAt) /\ [][C18_FailedStep]_vars

\* run has stopped at the "." of "+^.," whose write the hook at address 1
\* refused
C18_Witness ==
    /\ code = <<"+", "^", ".", ",">>
    /\ result.of = "run" /\ result.status = "Err"
    /\ result.err = PeripheralIOErr(1, 1)
    /\ pointer = 2
    /\ buffer = 1
    /\ CurrentCell = 1

\* C19: a step that fails with InvalidPage performs no operation on the
\* peripheral bus, for "." and for ",": no input is consumed by a step that
\* cannot store it.
C19_InvalidPageNoIO ==
    (built.ok /\ result.status = "Err" /\ result.err[1] = "InvalidPage") => io = <<>>

-----------------------------------------------------------------------------
(* Properties of the halted machine *)

Halted == built.ok /\ pointer = Len(prog)

C20_InRange ==
    built.ok =>
        /\ pointer <= Len(prog)
        /\ \A k \in DOMAIN jump_map : jump_map[k] <= Len(prog)
        /\ Halted =>
              next(VM, peripheral_tape) =
                  {[vm |-> VM, res |-> Ok(FALSE), panic |-> FALSE, io |-> <<>>]}

C20_HaltedStep ==
    Halted =>
        /\ pointer' = pointer /\ buffer' = buffer /\ data_tape' = data_tape
        /\ steps' = steps
        /\ panicked' = panicked
        /\ IF call.name = "idle"
           THEN \/ result' = Returned("next", Ok(FALSE)) /\ call' = IdleCall
                \/ result' = NoResult /\ call'.name \in {"run", "run_for"}
           ELSE result' = Returned(call.name, Ok(FALSE)) /\ call' = IdleCall

\* C20: the instruction pointer never exceeds the program length (every jump
\* target is at most the length, the filler jump to the end included); once it
\* equals the length every next returns Ok(false) and changes nothing, and run
\* and run_for return Ok.
C20_HaltIsStable == [](C20_InRange) /\ [][C20_HaltedStep]_vars

\* a raw program whose filler jump went to the end, and a next called after it
C20_Witness ==
    /\ Halted /\ ~sanitize
    /\ code = FillerProg(1, 1)
    /\ steps = 1
    /\ result = Returned("next", Ok(FALSE))

====
